---- MODULE Spec2Model ----
(***************************************************************************)
(* The x64 shader JIT of video_core/shader/shader_jit_x64.cpp as a state   *)
(* machine.  One pass of JitShader::Compile turns the shader program into  *)
(* a listing of host instructions (jit.code); the listing is then run on   *)
(* a small model of the host CPU (cpu, unit), one host instruction per     *)
(* step.  Host registers keep their physical names, 32-bit words are kept  *)
(* as (bit 31, bits 30..0) so that shifts, masks and IEEE-754 fields are   *)
(* computed as the host computes them.                                     *)
(***************************************************************************)
EXTENDS Integers, Sequences, FiniteSets, TLC

VARIABLES
    program,        \* g_state.vs.program_code: the shader instructions
    swizzle_data,   \* g_state.vs.swizzle_data: operand descriptors
    setup,          \* ShaderSetup: the bool, int and float uniforms
    host,           \* the build: calling convention and CPU capabilities
    entry,          \* the entry offset the caller runs the shader from
    jit,            \* JitShader: the compiler's state and the emitted code
    phase,          \* where the pass / the run is
    cpu,            \* host registers, flags and stack while the code runs
    unit,           \* UnitState: the per-invocation shader registers
    trace,          \* history: the destination writes executed so far
    calls           \* history: the CALLs entered and not yet left

vars == <<program, swizzle_data, setup, host, entry, jit, phase, cpu, unit, trace, calls>>

\* ------------------------------------------------------------------ bounds

\* Longest shader program drawn.
MaxProgLen == 5
\* Host stack slots above which a run is cut (runaway recursion).
MaxStack == 8
\* Destination writes after which a run is cut (runaway jumps).
MaxTrace == 12
\* Host instructions after which a run is cut (a loop counter that wrapped).
MaxSteps == 160

\* ------------------------------------------------------------- 32-bit words

Pow2(n) == 2 ^ n

\* A 32-bit word: s is bit 31, v the bits 30..0.
W(n) == [s |-> 0, v |-> n]
WNeg(n) == [s |-> 1, v |-> n]
\* 2^31 - 1, the largest value of the low 31 bits.
Max31 == (Pow2(30) - 1) * 2 + 1
AllOnes == [s |-> 1, v |-> Max31]
AllZero == W(0)

RECURSIVE AndN(_, _)
AndN(a, b) ==
    IF a = 0 \/ b = 0 THEN 0
    ELSE (a % 2) * (b % 2) + 2 * AndN(a \div 2, b \div 2)

RECURSIVE XorN(_, _)
XorN(a, b) ==
    IF a = 0 THEN b
    ELSE IF b = 0 THEN a
    ELSE (((a % 2) + (b % 2)) % 2) + 2 * XorN(a \div 2, b \div 2)

RECURSIVE OrN(_, _)
OrN(a, b) ==
    IF a = 0 THEN b
    ELSE IF b = 0 THEN a
    ELSE (IF (a % 2) + (b % 2) > 0 THEN 1 ELSE 0) + 2 * OrN(a \div 2, b \div 2)

WAnd(x, y) == [s |-> x.s * y.s, v |-> AndN(x.v, y.v)]
WXor(x, y) == [s |-> (x.s + y.s) % 2, v |-> XorN(x.v, y.v)]
WOr(x, y) == [s |-> IF x.s + y.s > 0 THEN 1 ELSE 0, v |-> OrN(x.v, y.v)]
\* Logical right shift by 1 <= n <= 31.
WShr(x, n) == W(x.s * Pow2(31 - n) + (IF n = 31 THEN 0 ELSE x.v \div Pow2(n)))
WNot(x) == [s |-> 1 - x.s, v |-> Max31 - x.v]
\* Addition and subtraction modulo 2^32.
WAdd(x, y) ==
    LET carry == IF x.v > Max31 - y.v THEN 1 ELSE 0
    IN  [s |-> (x.s + y.s + carry) % 2,
         v |-> IF carry = 1 THEN x.v - (Max31 - y.v) - 1 ELSE x.v + y.v]
WSub(x, y) == WAdd(WAdd(x, WNot(y)), W(1))

\* ------------------------------------------------------- IEEE-754 singles

ExpOf(x) == x.v \div Pow2(23)
ManOf(x) == x.v % Pow2(23)
F32(sign, e, m) == [s |-> sign, v |-> e * Pow2(23) + m]

FZero == F32(0, 0, 0)
FOne == F32(0, 127, 0)
FTwo == F32(0, 128, 0)
FNegOne == F32(1, 127, 0)
FInf == F32(0, 255, 0)
FNaN == F32(0, 255, Pow2(22))
\* The QNaN the host produces for an invalid operation (0 * inf).
FIndefinite == F32(1, 255, Pow2(22))

IsNaN(x) == ExpOf(x) = 255 /\ ManOf(x) # 0
IsInf(x) == ExpOf(x) = 255 /\ ManOf(x) = 0
IsZero(x) == x.v = 0

\* The order of two non-NaN singles (-0 = +0): sign and magnitude.
FVal(x) == IF x.s = 1 THEN 0 - x.v ELSE x.v
FLess(a, b) == ~IsNaN(a) /\ ~IsNaN(b) /\ FVal(a) < FVal(b)
FEq(a, b) == ~IsNaN(a) /\ ~IsNaN(b) /\ FVal(a) = FVal(b)

\* mulss on powers of two, zeros, infinities and NaNs.
FMul(a, b) ==
    LET sign == (a.s + b.s) % 2
        e == ExpOf(a) + ExpOf(b) - 127
    IN  IF IsNaN(a) THEN a
        ELSE IF IsNaN(b) THEN b
        ELSE IF (IsZero(a) /\ IsInf(b)) \/ (IsInf(a) /\ IsZero(b)) THEN FIndefinite
        ELSE IF IsInf(a) \/ IsInf(b) THEN F32(sign, 255, 0)
        ELSE IF IsZero(a) \/ IsZero(b) THEN F32(sign, 0, 0)
        ELSE IF e >= 255 THEN F32(sign, 255, 0)
        ELSE IF e <= 0 THEN F32(sign, 0, 0)
        ELSE F32(sign, e, 0)

\* A vector register: lanes 1..4 are x, y, z, w (lane 1 the lowest).
Vec(x, y, z, w) == <<x, y, z, w>>
Splat(x) == <<x, x, x, x>>

\* ------------------------------------------------------ the shader bytecode

\* Opcode values: the index of each generator in instr_table.
OP_EX2 == 5
OP_LG2 == 6
OP_MUL == 8
OP_MOV == 19
OP_NOP == 33
OP_END == 34
OP_CALL == 36
OP_CALLC == 37
OP_CALLU == 38
OP_IFU == 39
OP_IFC == 40
OP_LOOP == 41
OP_JMPC == 44
OP_JMPU == 45
OP_CMP == 46

instr_table ==
    << "Compile_ADD", "Compile_DP3", "Compile_DP4", "Compile_DPH",
       "nullptr", "Compile_EX2", "Compile_LG2", "nullptr",
       "Compile_MUL", "Compile_SGE", "Compile_SLT", "Compile_FLR",
       "Compile_MAX", "Compile_MIN", "Compile_RCP", "Compile_RSQ",
       "nullptr", "nullptr", "Compile_MOVA", "Compile_MOV",
       "nullptr", "nullptr", "nullptr", "nullptr",
       "Compile_DPH", "nullptr", "Compile_SGE", "Compile_SLT",
       "nullptr", "nullptr", "nullptr", "nullptr",
       "nullptr", "Compile_NOP", "Compile_END", "nullptr",
       "Compile_CALL", "Compile_CALLC", "Compile_CALLU", "Compile_IF",
       "Compile_IF", "Compile_LOOP", "nullptr", "nullptr",
       "Compile_JMP", "Compile_JMP", "Compile_CMP", "Compile_CMP",
       "Compile_MAD", "Compile_MAD", "Compile_MAD", "Compile_MAD",
       "Compile_MAD", "Compile_MAD", "Compile_MAD", "Compile_MAD",
       "Compile_MAD", "Compile_MAD", "Compile_MAD", "Compile_MAD",
       "Compile_MAD", "Compile_MAD", "Compile_MAD", "Compile_MAD" >>

\* A shader register reference (SourceRegister / DestRegister).
Reg(t, n) == [type |-> t, index |-> n]

\* One instruction word, decoded: the fields of the common and of the
\* flow-control formats side by side (a format reads only its own).
Instr(opc) ==
    [opcode |-> opc,
     dest_offset |-> 0, num_instructions |-> 0,
     op |-> "Or", refx |-> 0, refy |-> 0,
     bool_uniform_id |-> 0, int_uniform_id |-> 0,
     src1 |-> Reg("Input", 0), src2 |-> Reg("Input", 1),
     dest |-> Reg("Output", 0),
     operand_desc_id |-> 0, address_register_index |-> 0,
     compare_x |-> 0, compare_y |-> 0]

\* An operand descriptor (SwizzlePattern): raw 8-bit selectors, negation
\* flags and the destination mask (bit 3 is x, bit 0 is w).
Swizzle(sel1, sel2, neg1, neg2, mask) ==
    [src1_selector |-> sel1, src2_selector |-> sel2, src3_selector |-> (16 + 11),
     negate_src1 |-> neg1, negate_src2 |-> neg2, negate_src3 |-> FALSE,
     dest_mask |-> mask]

GetRawSelector(swiz, src_num) ==
    CASE src_num = 1 -> swiz.src1_selector
      [] src_num = 2 -> swiz.src2_selector
      [] src_num = 3 -> swiz.src3_selector

DestComponentEnabled(swiz, i) == (swiz.dest_mask \div Pow2(3 - i)) % 2 = 1

NO_SRC_REG_SWIZZLE == 27
NO_DEST_REG_MASK == 15

GetVertexShaderInstruction(offset) == program[offset + 1]

\* --------------------------------------------------------- host registers

SETUP == "r9"
ADDROFFS_REG_0 == "r10"
ADDROFFS_REG_1 == "r11"
LOOPCOUNT_REG == "r12"
LOOPCOUNT == "rsi"
LOOPINC == "rdi"
COND0 == "r13"
COND1 == "r14"
\* STATE in the source (a reserved word here).
STATE_PTR == "r15"
SCRATCH == "xmm0"
SRC1 == "xmm1"
SRC2 == "xmm2"
SRC3 == "xmm3"
SCRATCH2 == "xmm4"
ONE == "xmm14"
NEGBIT == "xmm15"

GPRs == {"rax", "rbx", "rcx", "rdx", "rsi", "rdi", "r8", "r9", "r10", "r11",
         "r12", "r13", "r14", "r15"}
XMMs == {"xmm0", "xmm1", "xmm2", "xmm3", "xmm4", "xmm14", "xmm15"}

persistent_regs ==
    {SETUP, STATE_PTR, ADDROFFS_REG_0, ADDROFFS_REG_1, LOOPCOUNT_REG, COND0, COND1,
     ONE, NEGBIT}

\* The calling convention of the build (common/x64/xbyak_abi.h).
ABI_ALL_CALLER_SAVED ==
    IF host.abi = "sysv"
    THEN {"rax", "rcx", "rdx", "rsi", "rdi", "r8", "r9", "r10", "r11"} \cup XMMs
    ELSE {"rax", "rcx", "rdx", "r8", "r9", "r10", "r11",
          "xmm0", "xmm1", "xmm2", "xmm3", "xmm4"}
ABI_ALL_CALLEE_SAVED == (GPRs \cup XMMs) \ ABI_ALL_CALLER_SAVED
ABI_PARAM1 == IF host.abi = "sysv" THEN "rdi" ELSE "rcx"
ABI_PARAM2 == IF host.abi = "sysv" THEN "rsi" ELSE "rdx"
ABI_PARAM3 == IF host.abi = "sysv" THEN "rdx" ELSE "r8"

PersistentCallerSavedRegs == persistent_regs \cap ABI_ALL_CALLER_SAVED

\* ------------------------------------------------------------ the emitter

\* One host instruction: mnemonic, destination, source, immediate, and the
\* shader offset whose generator emitted it (-1: the prologue).
Ins(o, d, s, i) == [op |-> o, d |-> d, s |-> s, i |-> i, at |-> 0 - 1]

\* A memory operand: base register, index register ("" for none), and the
\* displacement, kept as the shader register or uniform it addresses.
Mem(base, index, what) == [base |-> base, index |-> index, what |-> what]

Emit(j, at, ops) ==
    [j EXCEPT !.code = @ \o [k \in 1..Len(ops) |-> [ops[k] EXCEPT !.at = at]]]

\* The position the next emitted instruction will have (getCurr()).
Here(j) == Len(j.code) + 1

\* Xbyak::Label: declared unbound (0), bound once by L().
NewLabel(j) == [j EXCEPT !.labels = Append(@, 0)]
LastLabel(j) == Len(j.labels)
L(j, id) == [j EXCEPT !.labels[id] = Here(j)]
L_instr(j, offset) == [j EXCEPT !.instruction_labels[offset] = Here(j)]
LocalLabel(id) == <<"local", id>>
InstrLabel(offset) == <<"instr", offset>>

\* ------------------------------------------------------------- generators
\* Each generator maps the compiler state j to the state after it ran.
\* While a generator runs, program_counter is already one past its
\* instruction (Compile_NextInstr post-increments it).

At(j) == j.program_counter - 1

Compile_Assert(j, at, condition, msg) ==
    IF ~condition
    THEN Emit(j, at, << Ins("mov_imm", ABI_PARAM1, "", msg),
                        Ins("call_far", "", {}, "LogCritical") >>)
    ELSE j

\* OpCode::Info::SrcInversed: the formats whose wide source is the second.
SrcInversed(opcode) == opcode \in ({24, 25, 26, 27} \cup (48..55))

IsMad(opcode) == opcode >= 48

\* The selector with its four 2-bit fields in reverse order.
ReverseSelector(sel) ==
    (sel \div 64) + (sel % 4) * 64 + ((sel \div 4) % 4) * 16 + ((sel \div 16) % 4) * 4

Compile_SwizzleSrc(j, at, instr, src_num, src_reg, dest) ==
    LET src_ptr == IF src_reg.type = "FloatUniform" THEN SETUP ELSE STATE_PTR
        is_inverted == SrcInversed(instr.opcode)
        offset_src == IF IsMad(instr.opcode)
                      THEN (IF is_inverted THEN 3 ELSE 2)
                      ELSE (IF is_inverted THEN 2 ELSE 1)
        ari == instr.address_register_index
        index == IF src_num = offset_src /\ ari # 0
                 THEN CASE ari = 1 -> ADDROFFS_REG_0
                        [] ari = 2 -> ADDROFFS_REG_1
                        [] ari = 3 -> LOOPCOUNT_REG
                 ELSE ""
        swiz == swizzle_data[instr.operand_desc_id + 1]
        sel == GetRawSelector(swiz, src_num)
        negate == << swiz.negate_src1, swiz.negate_src2, swiz.negate_src3 >>
        j1 == Emit(j, at, << Ins("movaps_load", dest, Mem(src_ptr, index, src_reg), 0) >>)
        j2 == IF sel # NO_SRC_REG_SWIZZLE
              THEN Emit(j1, at, << Ins("shufps", dest, dest, ReverseSelector(sel)) >>)
              ELSE j1
    IN  IF negate[src_num]
        THEN Emit(j2, at, << Ins("xorps", dest, NEGBIT, 0) >>)
        ELSE j2

\* The destination mask used as the blendps immediate as it is.
BlendMask_Unreversed(dest_mask) == dest_mask

\* The blendps immediate of a destination mask: bit i set for lane i.
BlendMask(dest_mask) ==
    (dest_mask % 2) * 8 + (dest_mask \div 8) + ((dest_mask \div 2) % 2) * 4
        + ((dest_mask \div 4) % 2) * 2

\* The shufps selector that merges the unpacked source and destination.
MergeSelector(swiz) ==
    (IF DestComponentEnabled(swiz, 0) THEN 1 ELSE 0)
        + (IF DestComponentEnabled(swiz, 1) THEN 3 ELSE 2) * 4
        + (IF DestComponentEnabled(swiz, 2) THEN 0 ELSE 1) * 16
        + (IF DestComponentEnabled(swiz, 3) THEN 2 ELSE 3) * 64

Compile_DestEnable(j, at, instr, src) ==
    LET swiz == swizzle_data[instr.operand_desc_id + 1]
        dest == Mem(STATE_PTR, "", instr.dest)
    IN  IF swiz.dest_mask = NO_DEST_REG_MASK
        THEN Emit(j, at, << Ins("movaps_store", dest, src, 0) >>)
        ELSE Emit(j, at,
                << Ins("movaps_load", SCRATCH, dest, 0) >>
                \o (IF host.sse4_1
                    THEN << Ins("blendps", SCRATCH, src, BlendMask(swiz.dest_mask)) >>
                    ELSE << Ins("movaps", SCRATCH2, src, 0),
                            Ins("unpckhps", SCRATCH2, SCRATCH, 0),
                            Ins("unpcklps", SCRATCH, src, 0),
                            Ins("shufps", SCRATCH, SCRATCH2, MergeSelector(swiz)) >>)
                \o << Ins("movaps_store", dest, SCRATCH, 0) >>)

\* The multiplication without the 0 * inf correction.
Compile_PlainMul(j, at, src1, src2, scratch) ==
    Emit(j, at, << Ins("mulps", src1, src2, 0) >>)

Compile_SanitizedMul(j, at, src1, src2, scratch) ==
    Emit(j, at,
        << Ins("movaps", scratch, src1, 0),
           Ins("cmpps", scratch, src2, "CMP_ORD"),
           Ins("mulps", src1, src2, 0),
           Ins("movaps", src2, src1, 0),
           Ins("cmpps", src2, src2, "CMP_UNORD"),
           Ins("xorps", scratch, src2, 0),
           Ins("andps", src1, scratch, 0) >>)

\* The flag test of IFC, CALLC and JMPC; leaves ZF clear when it holds.
EvaluateConditionCode(instr) ==
    CASE instr.op = "Or" ->
            << Ins("mov", "rax", COND0, 0), Ins("mov", "rbx", COND1, 0),
               Ins("xor32", "rax", "", 1 - instr.refx),
               Ins("xor32", "rbx", "", 1 - instr.refy),
               Ins("or32", "rax", "rbx", 0) >>
      [] instr.op = "And" ->
            << Ins("mov", "rax", COND0, 0), Ins("mov", "rbx", COND1, 0),
               Ins("xor32", "rax", "", 1 - instr.refx),
               Ins("xor32", "rbx", "", 1 - instr.refy),
               Ins("and32", "rax", "rbx", 0) >>
      [] instr.op = "JustX" ->
            << Ins("mov", "rax", COND0, 0),
               Ins("xor32", "rax", "", 1 - instr.refx) >>
      [] instr.op = "JustY" ->
            << Ins("mov", "rax", COND1, 0),
               Ins("xor32", "rax", "", 1 - instr.refy) >>

Compile_EvaluateCondition(j, at, instr) == Emit(j, at, EvaluateConditionCode(instr))

Compile_UniformCondition(j, at, instr) ==
    Emit(j, at, << Ins("cmp_mem8", Mem(SETUP, "", Reg("BoolUniform", instr.bool_uniform_id)), "", 0) >>)

Compile_MOV(j, instr) ==
    Compile_DestEnable(
        Compile_SwizzleSrc(j, At(j), instr, 1, instr.src1, SRC1), At(j), instr, SRC1)

Compile_MUL(j, instr) ==
    LET at == At(j)
        j1 == Compile_SwizzleSrc(j, at, instr, 1, instr.src1, SRC1)
        j2 == Compile_SwizzleSrc(j1, at, instr, 2, instr.src2, SRC2)
        j3 == Compile_SanitizedMul(j2, at, SRC1, SRC2, SCRATCH)
    IN  Compile_DestEnable(j3, at, instr, SRC1)

\* EX2 and LG2: the call of exp2f / log2f between the push and the pop of
\* PersistentCallerSavedRegs() is one host step that saves exactly that set.
Compile_Transcendental(j, instr, fn) ==
    LET at == At(j)
        j1 == Compile_SwizzleSrc(j, at, instr, 1, instr.src1, SRC1)
        j2 == Emit(j1, at,
                << Ins("movss", "xmm0", SRC1, 0),
                   Ins("call_far", "", PersistentCallerSavedRegs, fn),
                   Ins("shufps", "xmm0", "xmm0", 0),
                   Ins("movaps", SRC1, "xmm0", 0) >>)
    IN  Compile_DestEnable(j2, at, instr, SRC1)

Compile_EX2(j, instr) == Compile_Transcendental(j, instr, "exp2f")
Compile_LG2(j, instr) == Compile_Transcendental(j, instr, "log2f")

Compile_NOP(j, instr) == j

Compile_END(j, instr) ==
    Emit(j, At(j), << Ins("abi_pop", "", ABI_ALL_CALLEE_SAVED, 8), Ins("ret", "", "", 0) >>)

\* Compile_CALL that leaves the pushed return offset on the stack.
Compile_CALL_KeepOffset(j, instr) ==
    Emit(j, At(j),
        << Ins("push_imm", "", "", instr.dest_offset + instr.num_instructions),
           Ins("call", InstrLabel(instr.dest_offset), "", 0) >>)

Compile_CALL(j, instr) ==
    Emit(j, At(j),
        << Ins("push_imm", "", "", instr.dest_offset + instr.num_instructions),
           Ins("call", InstrLabel(instr.dest_offset), "", 0),
           Ins("add_rsp", "", "", 8) >>)

Compile_CALLC(j, instr) ==
    LET j1 == NewLabel(Compile_EvaluateCondition(j, At(j), instr))
        b == LastLabel(j1)
        j2 == Emit(j1, At(j), << Ins("jz", LocalLabel(b), "", 0) >>)
    IN  L(Compile_CALL(j2, instr), b)

Compile_CALLU(j, instr) ==
    LET j1 == NewLabel(Compile_UniformCondition(j, At(j), instr))
        b == LastLabel(j1)
        j2 == Emit(j1, At(j), << Ins("jz", LocalLabel(b), "", 0) >>)
    IN  L(Compile_CALL(j2, instr), b)

\* cmp[]: the host predicate of each CompareOpType::Op (0 ==, 1 !=, 2 <,
\* 3 <=, 4 >, 5 >=).
CmpPredicate(op) == << "CMP_EQ", "CMP_NEQ", "CMP_LT", "CMP_LE", "CMP_LT", "CMP_LE" >>[op + 1]
\* No operator has its operands swapped.
InvertOp_Never(op) == FALSE
InvertOp(op) == op \in {4, 5}

Compile_CMP(j, instr) ==
    LET at == At(j)
        op_x == instr.compare_x
        op_y == instr.compare_y
        j1 == Compile_SwizzleSrc(j, at, instr, 1, instr.src1, SRC1)
        j2 == Compile_SwizzleSrc(j1, at, instr, 2, instr.src2, SRC2)
        lhs_x == IF InvertOp(op_x) THEN SRC2 ELSE SRC1
        rhs_x == IF InvertOp(op_x) THEN SRC1 ELSE SRC2
        lhs_y == IF InvertOp(op_y) THEN SRC2 ELSE SRC1
        rhs_y == IF InvertOp(op_y) THEN SRC1 ELSE SRC2
        compare ==
            IF op_x = op_y
            THEN << Ins("cmpps", lhs_x, rhs_x, CmpPredicate(op_x)),
                    Ins("movq", COND0, lhs_x, 0),
                    Ins("mov", COND1, COND0, 0) >>
            ELSE << Ins("movaps", SCRATCH, lhs_x, 0),
                    Ins("cmpss", SCRATCH, rhs_x, CmpPredicate(op_x)),
                    Ins("cmpps", lhs_y, rhs_y, CmpPredicate(op_y)),
                    Ins("movq", COND0, SCRATCH, 0),
                    Ins("movq", COND1, lhs_y, 0) >>
    IN  Emit(j2, at, compare \o << Ins("shr32", COND0, "", 31), Ins("shr64", COND1, "", 63) >>)

\* A generator suspended in Compile_Block(end): which one, how far it got,
\* its instruction and its labels.
Frame(fn, stage, end, instr, at, la, lb) ==
    [fn |-> fn, stage |-> stage, end |-> end, instr |-> instr, at |-> at,
     la |-> la, lb |-> lb]
TopFrame(j) == j.frames[Len(j.frames)]
PushFrame(j, f) == [j EXCEPT !.frames = Append(@, f)]
PopFrame(j) == [j EXCEPT !.frames = SubSeq(@, 1, Len(@) - 1)]

\* Compile_IF up to its first Compile_Block(dest_offset).
Compile_IF(j, instr) ==
    LET at == At(j)
        j1 == Compile_Assert(j, at, instr.dest_offset >= j.program_counter,
                             "Backwards if-statements not supported")
        j2 == NewLabel(NewLabel(j1))
        l_else == LastLabel(j2) - 1
        l_endif == LastLabel(j2)
        j3 == IF instr.opcode = OP_IFU THEN Compile_UniformCondition(j2, at, instr)
              ELSE IF instr.opcode = OP_IFC THEN Compile_EvaluateCondition(j2, at, instr)
              ELSE j2
        j4 == Emit(j3, at, << Ins("jz", LocalLabel(l_else), "", 0) >>)
    IN  PushFrame(j4, Frame("Compile_IF", 1, instr.dest_offset, instr, at, l_else, l_endif))

\* Compile_IF that starts the else block over at dest_offset.
Compile_IF_Else_Rewind(j, f) ==
    IF f.instr.num_instructions = 0
    THEN PopFrame(L(j, f.la))
    ELSE LET j1 == L(Emit(j, f.at, << Ins("jmp", LocalLabel(f.lb), "", 0) >>), f.la)
         IN  PushFrame(PopFrame([j1 EXCEPT !.program_counter = f.instr.dest_offset]),
                 [f EXCEPT !.stage = 2,
                           !.end = f.instr.dest_offset + f.instr.num_instructions])

\* Compile_IF after the true block: done without an ELSE, otherwise on to
\* Compile_Block(dest_offset + num_instructions).
Compile_IF_Else(j, f) ==
    IF f.instr.num_instructions = 0
    THEN PopFrame(L(j, f.la))
    ELSE LET j1 == L(Emit(j, f.at, << Ins("jmp", LocalLabel(f.lb), "", 0) >>), f.la)
         IN  PushFrame(PopFrame(j1),
                 [f EXCEPT !.stage = 2,
                           !.end = f.instr.dest_offset + f.instr.num_instructions])

\* Compile_IF after the else block.
Compile_IF_End(j, f) == PopFrame(L(j, f.lb))

\* The loop prologue that takes the X component itself as the iteration
\* count.
LoopDecodeCode_NoExtraPass(instr) ==
    << Ins("mov_load32", LOOPCOUNT, Mem(SETUP, "", Reg("IntUniform", instr.int_uniform_id)), 0),
       Ins("mov32", LOOPCOUNT_REG, LOOPCOUNT, 0),
       Ins("shr32", LOOPCOUNT_REG, "", 4),
       Ins("and32", LOOPCOUNT_REG, "", 4080),
       Ins("mov32", LOOPINC, LOOPCOUNT, 0),
       Ins("shr32", LOOPINC, "", 12),
       Ins("and32", LOOPINC, "", 4080),
       Ins("movzx8", LOOPCOUNT, LOOPCOUNT, 0) >>

\* The loop prologue: unpack the integer uniform.
LoopDecodeCode(instr) ==
    << Ins("mov_load32", LOOPCOUNT, Mem(SETUP, "", Reg("IntUniform", instr.int_uniform_id)), 0),
       Ins("mov32", LOOPCOUNT_REG, LOOPCOUNT, 0),
       Ins("shr32", LOOPCOUNT_REG, "", 4),
       Ins("and32", LOOPCOUNT_REG, "", 4080),
       Ins("mov32", LOOPINC, LOOPCOUNT, 0),
       Ins("shr32", LOOPINC, "", 12),
       Ins("and32", LOOPINC, "", 4080),
       Ins("movzx8", LOOPCOUNT, LOOPCOUNT, 0),
       Ins("add32", LOOPCOUNT, "", 1) >>

\* Compile_LOOP up to its Compile_Block(dest_offset + 1).
Compile_LOOP(j, instr) ==
    LET at == At(j)
        j1 == Compile_Assert(j, at, instr.dest_offset >= j.program_counter,
                             "Backwards loops not supported")
        j2 == Compile_Assert(j1, at, ~j.looping, "Nested loops not supported")
        j3 == [j2 EXCEPT !.looping = TRUE]
        j4 == NewLabel(Emit(j3, at, LoopDecodeCode(instr)))
        l_loop_start == LastLabel(j4)
    IN  PushFrame(L(j4, l_loop_start),
            Frame("Compile_LOOP", 1, instr.dest_offset + 1, instr, at, l_loop_start, 0))

\* The loop tail: step the accumulator, count down, branch back.
LoopTailCode(l_loop_start) ==
    << Ins("add32", LOOPCOUNT_REG, LOOPINC, 0),
       Ins("sub32", LOOPCOUNT, "", 1),
       Ins("jnz", LocalLabel(l_loop_start), "", 0) >>

\* Compile_LOOP after the body.
Compile_LOOP_End(j, f) ==
    PopFrame([Emit(j, f.at, LoopTailCode(f.la)) EXCEPT !.looping = FALSE])

Compile_JMP(j, instr) ==
    LET at == At(j)
        j1 == IF instr.opcode = OP_JMPC THEN Compile_EvaluateCondition(j, at, instr)
              ELSE Compile_UniformCondition(j, at, instr)
        inverted_condition ==
            instr.opcode = OP_JMPU /\ instr.num_instructions % 2 = 1
    IN  Emit(j1, at,
            << Ins(IF inverted_condition THEN "jz" ELSE "jnz",
                   InstrLabel(instr.dest_offset), "", 0) >>)

\* The return check emitted in front of a return offset.
Compile_Return(j) ==
    LET at == j.program_counter
        j1 == NewLabel(Emit(j, at,
                << Ins("mov_rsp8", "rax", "", 0),
                   Ins("cmp32", "rax", "", j.program_counter) >>))
        b == LastLabel(j1)
    IN  L(Emit(j1, at, << Ins("jnz", LocalLabel(b), "", 0), Ins("ret", "", "", 0) >>), b)

\* Generators whose code no property below reads: one opaque instruction.
Compile_Other(j, instr, fn) == Emit(j, At(j), << Ins("opaque", "", "", fn) >>)

Generate(fn, j, instr) ==
    CASE fn = "Compile_NOP" -> Compile_NOP(j, instr)
      [] fn = "Compile_END" -> Compile_END(j, instr)
      [] fn = "Compile_MOV" -> Compile_MOV(j, instr)
      [] fn = "Compile_MUL" -> Compile_MUL(j, instr)
      [] fn = "Compile_EX2" -> Compile_EX2(j, instr)
      [] fn = "Compile_LG2" -> Compile_LG2(j, instr)
      [] fn = "Compile_CMP" -> Compile_CMP(j, instr)
      [] fn = "Compile_CALL" -> Compile_CALL(j, instr)
      [] fn = "Compile_CALLC" -> Compile_CALLC(j, instr)
      [] fn = "Compile_CALLU" -> Compile_CALLU(j, instr)
      [] fn = "Compile_IF" -> Compile_IF(j, instr)
      [] fn = "Compile_LOOP" -> Compile_LOOP(j, instr)
      [] fn = "Compile_JMP" -> Compile_JMP(j, instr)
      [] OTHER -> Compile_Other(j, instr, fn)

InReturnOffsets(j, offset) == \E i \in 1..Len(j.return_offsets) : j.return_offsets[i] = offset

\* Compile_NextInstr that looks the generator up before it binds the
\* label, and leaves at once when there is none.
Compile_NextInstr_EarlyOut(j) ==
    LET pc == j.program_counter
        j0 == [j EXCEPT !.starts[pc] = Here(j)]
        j1 == IF InReturnOffsets(j0, pc) THEN Compile_Return(j0) ELSE j0
        instr == GetVertexShaderInstruction(pc)
        j3 == [j1 EXCEPT !.program_counter = pc + 1]
        instr_func == instr_table[instr.opcode + 1]
    IN  IF instr_func # "nullptr"
        THEN Generate(instr_func, L_instr(j3, pc), instr)
        ELSE [j3 EXCEPT !.log = Append(@, <<"Unhandled instruction", pc>>)]

\* Compile_NextInstr that binds the label in front of the return check.
Compile_NextInstr_LabelFirst(j) ==
    LET pc == j.program_counter
        j0 == [j EXCEPT !.starts[pc] = Here(j)]
        j1 == L_instr(j0, pc)
        j2 == IF InReturnOffsets(j1, pc) THEN Compile_Return(j1) ELSE j1
        instr == GetVertexShaderInstruction(pc)
        j3 == [j2 EXCEPT !.program_counter = pc + 1]
        instr_func == instr_table[instr.opcode + 1]
    IN  IF instr_func # "nullptr"
        THEN Generate(instr_func, j3, instr)
        ELSE [j3 EXCEPT !.log = Append(@, <<"Unhandled instruction", pc>>)]

Compile_NextInstr(j) ==
    LET pc == j.program_counter
        j0 == [j EXCEPT !.starts[pc] = Here(j)]
        j1 == IF InReturnOffsets(j0, pc) THEN Compile_Return(j0) ELSE j0
        j2 == L_instr(j1, pc)
        instr == GetVertexShaderInstruction(pc)
        j3 == [j2 EXCEPT !.program_counter = pc + 1]
        instr_func == instr_table[instr.opcode + 1]
    IN  IF instr_func # "nullptr"
        THEN Generate(instr_func, j3, instr)
        ELSE [j3 EXCEPT !.log = Append(@, <<"Unhandled instruction", pc>>)]

RECURSIVE InsertSorted(_, _)
InsertSorted(s, x) ==
    IF s = <<>> THEN <<x>>
    ELSE IF x <= Head(s) THEN <<x>> \o s
    ELSE <<Head(s)>> \o InsertSorted(Tail(s), x)

RECURSIVE SortOffsets(_)
SortOffsets(s) == IF s = <<>> THEN <<>> ELSE InsertSorted(SortOffsets(Tail(s)), Head(s))

RECURSIVE ScanCalls(_)
ScanCalls(offset) ==
    IF offset >= Len(program) THEN <<>>
    ELSE LET instr == GetVertexShaderInstruction(offset)
         IN  (IF instr.opcode \in {OP_CALL, OP_CALLC, OP_CALLU}
              THEN << instr.dest_offset + instr.num_instructions >>
              ELSE <<>>) \o ScanCalls(offset + 1)

FindReturnOffsets == SortOffsets(ScanCalls(0))

PrologueCode ==
    << Ins("abi_push", "", ABI_ALL_CALLEE_SAVED, 8),
       Ins("mov", SETUP, ABI_PARAM1, 0),
       Ins("mov", STATE_PTR, ABI_PARAM2, 0),
       Ins("xor32", ADDROFFS_REG_0, ADDROFFS_REG_0, 0),
       Ins("xor32", ADDROFFS_REG_1, ADDROFFS_REG_1, 0),
       Ins("xor32", LOOPCOUNT_REG, LOOPCOUNT_REG, 0),
       Ins("movaps_const", ONE, "", Splat(FOne)),
       Ins("movaps_const", NEGBIT, "", Splat(F32(1, 0, 0))),
       Ins("jmp_reg", "", ABI_PARAM3, 0) >>

\* JitShader(): nothing compiled yet.
NewJit ==
    [program_counter |-> 0, looping |-> FALSE, code |-> <<>>, labels |-> <<>>,
     instruction_labels |-> [k \in 0..(Len(program) - 1) |-> 0],
     starts |-> [k \in 0..(Len(program) - 1) |-> 0],
     return_offsets |-> <<>>, frames |-> <<>>, log |-> <<>>]

\* Compile() up to its Compile_Block(program_code.size()).
Compile_Begin(j) ==
    LET j1 == [j EXCEPT !.program_counter = 0, !.looping = FALSE,
                        !.instruction_labels = [k \in DOMAIN @ |-> 0],
                        !.return_offsets = FindReturnOffsets]
    IN  PushFrame(Emit(j1, 0 - 1, PrologueCode),
            Frame("Compile", 1, Len(program), Instr(OP_NOP), 0 - 1, 0, 0))

\* Compile() after the whole program is compiled.
Compile_Finish(j) == PopFrame([j EXCEPT !.return_offsets = <<>>])

\* ------------------------------------------------------------ the host CPU

\* A 64-bit register or stack slot: two words, or a tagged pointer
\* ("setup", "state", "code" with the code position in lo, "caller", "msg").
Val64(lo, hi) == [k |-> "int", lo |-> lo, hi |-> hi]
Val32(lo) == Val64(lo, W(0))
Imm(n) == Val32(W(n))
Ptr(kind) == [k |-> kind, lo |-> W(0), hi |-> W(0)]
CodeAddr(pos) == [k |-> "code", lo |-> W(pos), hi |-> W(0)]

\* Left shift of a word by 1 <= n <= 31.
WShl(x, n) ==
    [s |-> (x.v \div Pow2(31 - n)) % 2,
     v |-> IF n = 31 THEN 0 ELSE (x.v % Pow2(31 - n)) * Pow2(n)]

\* shr r64, n.
Shr64(x, n) ==
    IF n < 32 THEN Val64(WOr(WShr(x.lo, n), WShl(x.hi, 32 - n)), WShr(x.hi, n))
    ELSE IF n = 32 THEN Val32(x.hi)
    ELSE Val32(WShr(x.hi, n - 32))

Mask(b) == IF b THEN AllOnes ELSE AllZero

\* cmpss / one lane of cmpps.
CmpLane(pred, a, b) ==
    Mask(CASE pred = "CMP_EQ" -> FEq(a, b)
           [] pred = "CMP_LT" -> FLess(a, b)
           [] pred = "CMP_LE" -> FLess(a, b) \/ FEq(a, b)
           [] pred = "CMP_UNORD" -> IsNaN(a) \/ IsNaN(b)
           [] pred = "CMP_NEQ" -> ~FEq(a, b)
           [] pred = "CMP_ORD" -> ~IsNaN(a) /\ ~IsNaN(b))

Shufps(d, s, imm) ==
    << d[(imm % 4) + 1], d[((imm \div 4) % 4) + 1],
       s[((imm \div 16) % 4) + 1], s[((imm \div 64) % 4) + 1] >>
Blendps(d, s, imm) ==
    [i \in 1..4 |-> IF (imm \div Pow2(i - 1)) % 2 = 1 THEN s[i] ELSE d[i]]
Unpckhps(d, s) == << d[3], s[3], d[4], s[4] >>
Unpcklps(d, s) == << d[1], s[1], d[2], s[2] >>

\* Where a label points (0: never bound, or outside the label table).
Target(lab) ==
    IF lab[1] = "local" THEN jit.labels[lab[2]]
    ELSE IF lab[2] \in DOMAIN jit.instruction_labels
         THEN jit.instruction_labels[lab[2]]
         ELSE 0

\* The shader register or uniform a memory operand addresses: the
\* displacement plus the index register's byte offset, 16 bytes a register.
Indexed(c, m) ==
    IF m.index = "" THEN m.what
    ELSE [m.what EXCEPT !.index = @ + (c.gpr[m.index].lo.v \div 16)]

FloatOperand(m) == m.what.type \in {"Input", "Temporary", "Output", "FloatUniform"}

\* The access stays inside the block its base register points to.
ValidAccess(c, m) ==
    IF ~FloatOperand(m)
    THEN c.gpr[m.base].k = "setup"
         /\ m.what.index \in DOMAIN (IF m.what.type = "BoolUniform" THEN setup.b ELSE setup.i)
    ELSE IF m.what.type = "FloatUniform"
         THEN c.gpr[m.base].k = "setup" /\ Indexed(c, m).index \in DOMAIN setup.f
         ELSE c.gpr[m.base].k = "state" /\ Indexed(c, m) \in DOMAIN unit

LoadVec(c, m) ==
    IF m.what.type = "FloatUniform" THEN setup.f[Indexed(c, m).index]
    ELSE unit[Indexed(c, m)]

Wild(c) == [c EXCEPT !.halt = "wild"]
Goto(c, pos) == IF pos = 0 THEN Wild(c) ELSE [c EXCEPT !.ip = pos]
Fall(c) == [c EXCEPT !.ip = @ + 1]
\* history: one more host instruction has run.
Tick(c) == [c EXCEPT !.steps = @ + 1]
SetG(c, r, v) == Fall([c EXCEPT !.gpr[r] = v])
SetX(c, r, v) == Fall([c EXCEPT !.xmm[r] = v])
\* A 32-bit ALU result: written zero-extended, ZF from the result.
Alu32(c, r, w) == Fall([c EXCEPT !.gpr[r] = Val32(w), !.zf = (w = W(0))])
\* The second operand of an ALU instruction: a register or the immediate.
Operand(c, o) == IF o.s = "" THEN W(o.i) ELSE c.gpr[o.s].lo

\* A far call: the callee may change every caller-saved register that the
\* call site did not save (o.s), and leaves host.leftover in them;
\* exp2f / log2f return host.result in lane 1 of xmm0.
\* LogCritical is logged as the shader offset whose assertion called it.
CallFar(c, o) ==
    LET lost == ABI_ALL_CALLER_SAVED \ o.s
        gpr == [r \in GPRs |-> IF r \in lost THEN Imm(host.leftover) ELSE c.gpr[r]]
        xmm == [r \in XMMs |->
                   IF r = "xmm0" /\ o.i # "LogCritical"
                       THEN << host.result, W(host.leftover), W(host.leftover),
                               W(host.leftover) >>
                   ELSE IF r \in lost THEN Splat(W(host.leftover))
                   ELSE c.xmm[r]]
    IN  Fall([c EXCEPT !.gpr = gpr, !.xmm = xmm,
                       !.log = IF o.i = "LogCritical" THEN Append(@, o.at) ELSE @])

\* The register values the caller had: one value in every register.
CallerValue == Imm(host.caller)

\* One host instruction o run on c.
Execute(c, o) ==
    LET n == Len(c.stack) IN
    CASE o.op = "mov" -> SetG(c, o.d, c.gpr[o.s])
      [] o.op = "mov32" -> SetG(c, o.d, Val32(c.gpr[o.s].lo))
      [] o.op = "mov_imm" -> SetG(c, o.d, Ptr("msg"))
      [] o.op = "mov_load32" ->
            IF ValidAccess(c, o.s) THEN SetG(c, o.d, Val32(setup.i[o.s.what.index])) ELSE Wild(c)
      [] o.op = "movzx8" -> SetG(c, o.d, Imm(c.gpr[o.s].lo.v % 256))
      [] o.op = "shr32" -> Alu32(c, o.d, WShr(c.gpr[o.d].lo, o.i))
      [] o.op = "shr64" ->
            Fall([c EXCEPT !.gpr[o.d] = Shr64(c.gpr[o.d], o.i),
                           !.zf = (Shr64(c.gpr[o.d], o.i) = Imm(0))])
      [] o.op = "and32" -> Alu32(c, o.d, WAnd(c.gpr[o.d].lo, Operand(c, o)))
      [] o.op = "or32" -> Alu32(c, o.d, WOr(c.gpr[o.d].lo, Operand(c, o)))
      [] o.op = "xor32" -> Alu32(c, o.d, WXor(c.gpr[o.d].lo, Operand(c, o)))
      [] o.op = "add32" -> Alu32(c, o.d, WAdd(c.gpr[o.d].lo, Operand(c, o)))
      [] o.op = "sub32" -> Alu32(c, o.d, WSub(c.gpr[o.d].lo, Operand(c, o)))
      [] o.op = "cmp32" ->
            Fall([c EXCEPT !.zf = (c.gpr[o.d].k = "int" /\ c.gpr[o.d].lo = W(o.i))])
      [] o.op = "cmp_mem8" ->
            IF ValidAccess(c, o.d)
            THEN Fall([c EXCEPT !.zf = ~setup.b[o.d.what.index]])
            ELSE Wild(c)
      [] o.op = "mov_rsp8" -> IF n >= 2 THEN SetG(c, o.d, c.stack[n - 1]) ELSE Wild(c)
      [] o.op = "push_imm" -> Fall([c EXCEPT !.stack = Append(@, Imm(o.i))])
      [] o.op = "add_rsp" ->
            IF n >= 1 THEN Fall([c EXCEPT !.stack = SubSeq(@, 1, n - 1)]) ELSE Wild(c)
      [] o.op = "call" ->
            Goto([c EXCEPT !.stack = Append(@, CodeAddr(c.ip + 1))], Target(o.d))
      [] o.op = "ret" ->
            IF n = 0 THEN Wild(c)
            ELSE LET to == c.stack[n]
                     c1 == [c EXCEPT !.stack = SubSeq(@, 1, n - 1)]
                 IN  IF to.k = "code" THEN Goto(c1, to.lo.v)
                     ELSE IF to.k = "caller" THEN [c1 EXCEPT !.halt = "done"]
                     ELSE Wild(c1)
      [] o.op = "jmp" -> Goto(c, Target(o.d))
      [] o.op = "jz" -> IF c.zf THEN Goto(c, Target(o.d)) ELSE Fall(c)
      [] o.op = "jnz" -> IF ~c.zf THEN Goto(c, Target(o.d)) ELSE Fall(c)
      [] o.op = "jmp_reg" ->
            IF c.gpr[o.s].k = "code" THEN Goto(c, c.gpr[o.s].lo.v) ELSE Wild(c)
      [] o.op = "abi_push" ->
            \* Of the saved frame the code can only read the slot at
            \* [rsp + 8]: the register pushed last, or shadow space.
            Fall([c EXCEPT !.stack = @ \o << IF host.abi = "sysv" THEN c.gpr["r15"]
                                               ELSE CallerValue,
                                             CallerValue >>])
      [] o.op = "abi_pop" ->
            \* The epilogue restores the caller's registers if rsp is where
            \* the prologue left it; otherwise it pops whatever is there.
            IF n = 3
            THEN Fall([c EXCEPT !.stack = SubSeq(@, 1, 1),
                                !.gpr = [r \in GPRs |-> IF r \in o.s THEN CallerValue
                                                        ELSE c.gpr[r]]])
            ELSE Wild(c)
      [] o.op = "call_far" -> CallFar(c, o)
      [] o.op = "movaps" -> SetX(c, o.d, c.xmm[o.s])
      [] o.op = "movaps_const" -> SetX(c, o.d, o.i)
      [] o.op = "movaps_load" ->
            IF ValidAccess(c, o.s) THEN SetX(c, o.d, LoadVec(c, o.s)) ELSE Wild(c)
      [] o.op = "movaps_store" -> IF ValidAccess(c, o.d) THEN Fall(c) ELSE Wild(c)
      [] o.op = "movss" -> SetX(c, o.d, [c.xmm[o.d] EXCEPT ![1] = c.xmm[o.s][1]])
      [] o.op = "movq" -> SetG(c, o.d, Val64(c.xmm[o.s][1], c.xmm[o.s][2]))
      [] o.op = "shufps" -> SetX(c, o.d, Shufps(c.xmm[o.d], c.xmm[o.s], o.i))
      [] o.op = "blendps" -> SetX(c, o.d, Blendps(c.xmm[o.d], c.xmm[o.s], o.i))
      [] o.op = "unpckhps" -> SetX(c, o.d, Unpckhps(c.xmm[o.d], c.xmm[o.s]))
      [] o.op = "unpcklps" -> SetX(c, o.d, Unpcklps(c.xmm[o.d], c.xmm[o.s]))
      [] o.op = "xorps" -> SetX(c, o.d, [i \in 1..4 |-> WXor(c.xmm[o.d][i], c.xmm[o.s][i])])
      [] o.op = "andps" -> SetX(c, o.d, [i \in 1..4 |-> WAnd(c.xmm[o.d][i], c.xmm[o.s][i])])
      [] o.op = "mulps" -> SetX(c, o.d, [i \in 1..4 |-> FMul(c.xmm[o.d][i], c.xmm[o.s][i])])
      [] o.op = "cmpps" ->
            SetX(c, o.d, [i \in 1..4 |-> CmpLane(o.i, c.xmm[o.d][i], c.xmm[o.s][i])])
      [] o.op = "cmpss" ->
            SetX(c, o.d, [c.xmm[o.d] EXCEPT ![1] = CmpLane(o.i, c.xmm[o.d][1], c.xmm[o.s][1])])
      [] o.op = "opaque" -> Fall(c)

\* The per-invocation state after o: only a store writes it.
Store(c, o) ==
    IF o.op = "movaps_store" /\ ValidAccess(c, o.d)
    THEN [unit EXCEPT ![Indexed(c, o.d)] = c.xmm[o.s]]
    ELSE unit

\* The registers the compiled function is entered with.
EnterCpu ==
    [ip |-> 1,
     gpr |-> [r \in GPRs |->
                 IF r = ABI_PARAM1 THEN Ptr("setup")
                 ELSE IF r = ABI_PARAM2 THEN Ptr("state")
                 ELSE IF r = ABI_PARAM3 THEN CodeAddr(jit.instruction_labels[entry])
                 ELSE CallerValue],
     xmm |-> [r \in XMMs |-> Splat(W(host.caller))],
     zf |-> FALSE,
     stack |-> << Ptr("caller") >>,
     log |-> <<>>,
     steps |-> 0,
     halt |-> ""]

\* Nothing runs before the program is compiled.
IdleCpu ==
    [ip |-> 0,
     gpr |-> [r \in GPRs |-> Imm(0)],
     xmm |-> [r \in XMMs |-> Splat(W(0))],
     zf |-> FALSE, stack |-> <<>>, log |-> <<>>, steps |-> 0, halt |-> ""]

\* ---------------------------------------------------------------- actions

\* JitShader::Compile() is called.
StartCompile ==
    /\ phase = "constructed"
    /\ jit' = Compile_Begin(jit)
    /\ phase' = "compile"
    /\ UNCHANGED <<program, swizzle_data, setup, host, entry, cpu, unit, trace, calls>>

\* Compile_Block: the next iteration of `while (program_counter < end)`.
\* Reading program_code past its end is outside the language: "fault".
StepNextInstr ==
    /\ phase = "compile"
    /\ jit.frames # <<>>
    /\ jit.program_counter < TopFrame(jit).end
    /\ IF jit.program_counter < Len(program)
       THEN jit' = Compile_NextInstr(jit) /\ phase' = phase
       ELSE jit' = jit /\ phase' = "fault"
    /\ UNCHANGED <<program, swizzle_data, setup, host, entry, cpu, unit, trace, calls>>

\* Compile_Block returns: the generator that called it goes on.
BlockReturn(j) ==
    LET f == TopFrame(j) IN
    CASE f.fn = "Compile" -> Compile_Finish(j)
      [] f.fn = "Compile_IF" /\ f.stage = 1 -> Compile_IF_Else(j, f)
      [] f.fn = "Compile_IF" /\ f.stage = 2 -> Compile_IF_End(j, f)
      [] f.fn = "Compile_LOOP" -> Compile_LOOP_End(j, f)

StepBlockReturn ==
    /\ phase = "compile"
    /\ jit.frames # <<>>
    /\ jit.program_counter >= TopFrame(jit).end
    /\ jit' = BlockReturn(jit)
    /\ phase' = IF jit'.frames = <<>> THEN "ready" ELSE phase
    /\ UNCHANGED <<program, swizzle_data, setup, host, entry, cpu, unit, trace, calls>>

\* The caller invokes the compiled function on (setup, state, entry).
Run ==
    /\ phase = "ready"
    /\ cpu' = EnterCpu
    /\ phase' = "run"
    /\ UNCHANGED <<program, swizzle_data, setup, host, entry, jit, unit, trace, calls>>

CurOp == jit.code[cpu.ip]
Running == phase = "run" /\ cpu.ip \in 1..Len(jit.code)

\* history: a destination write, with the loop accumulator it ran under.
Written(c, o) ==
    IF o.op = "movaps_store" THEN Append(trace, [at |-> o.at, acc |-> c.gpr[LOOPCOUNT_REG].lo.v])
    ELSE trace

\* history: a CALL is entered at its push and left at its add rsp.
Entered(c, o) ==
    IF o.op = "push_imm"
    THEN Append(calls, [site |-> o.at, ret |-> o.i, sp |-> Len(c.stack)])
    ELSE IF o.op = "add_rsp" /\ calls # <<>> THEN SubSeq(calls, 1, Len(calls) - 1)
    ELSE calls

\* The CPU runs one host instruction; running off the emitted code is
\* outside the language: "wild".
Step ==
    /\ phase = "run"
    /\ Len(cpu.stack) < MaxStack
    /\ Len(trace) < MaxTrace
    /\ cpu.steps < MaxSteps
    /\ IF cpu.ip \in 1..Len(jit.code)
       THEN /\ cpu' = Tick(Execute(cpu, CurOp))
            /\ unit' = Store(cpu, CurOp)
            /\ trace' = Written(cpu, CurOp)
            /\ calls' = Entered(cpu, CurOp)
       ELSE /\ cpu' = Wild(cpu)
            /\ UNCHANGED <<unit, trace, calls>>
    /\ phase' = IF cpu'.halt # "" THEN cpu'.halt ELSE phase
    /\ UNCHANGED <<program, swizzle_data, setup, host, entry, jit>>

Next == StartCompile \/ StepNextInstr \/ StepBlockReturn \/ Run \/ Step

\* ----------------------------------------------------------------- inputs

UnitRegs ==
    {Reg("Input", 0), Reg("Input", 1), Reg("Temporary", 0), Reg("Output", 0)}

IdentitySwizzle == Swizzle(NO_SRC_REG_SWIZZLE, NO_SRC_REG_SWIZZLE, FALSE, FALSE, NO_DEST_REG_MASK)

\* An integer uniform: x | y << 8 | z << 16 | w << 24.
PackInt(x, y, z, w) == [s |-> w \div 128, v |-> x + y * 256 + z * 65536 + (w % 128) * 16777216]

Uniforms(b, i) ==
    [b |-> [id \in {0} |-> b], i |-> [id \in {0} |-> i], f |-> [id \in {0} |-> Splat(FTwo)]]

PlainUnit == [r \in UnitRegs |-> Splat(FOne)]

\* A build: the calling convention, the CPU capability, the value the
\* caller left in the registers, and what a far call leaves behind.
Host(abi, sse4_1, caller, leftover, result) ==
    [abi |-> abi, sse4_1 |-> sse4_1, caller |-> caller, leftover |-> leftover,
     result |-> result]
Sysv(caller) == Host("sysv", TRUE, caller, 1, FOne)
Win64(caller) == Host("win64", TRUE, caller, 1, FOne)

InitWith(programs, swizzles, uniforms, units, hosts, entries) ==
    /\ program \in programs
    /\ swizzle_data \in swizzles
    /\ setup \in uniforms
    /\ unit \in units
    /\ host \in hosts
    /\ entry \in entries
    /\ jit = NewJit
    /\ phase = "constructed"
    /\ cpu = IdleCpu
    /\ trace = <<>>
    /\ calls = <<>>

\* Instructions of the structured-flow programs.
Mov == Instr(OP_MOV)
End == Instr(OP_END)
Nop == Instr(OP_NOP)
Ifu(d, n) == [Instr(OP_IFU) EXCEPT !.dest_offset = d, !.num_instructions = n]
Loop(d) == [Instr(OP_LOOP) EXCEPT !.dest_offset = d]
Call(d, n) == [Instr(OP_CALL) EXCEPT !.dest_offset = d, !.num_instructions = n]
Jmpu(d, n) == [Instr(OP_JMPU) EXCEPT !.dest_offset = d, !.num_instructions = n]

\* Programs of one length: `body` instructions from an alphabet, then END.
Programs(alphabet, len) ==
    {p \o <<End>> : p \in [1..(len - 1) -> alphabet]}

FlowAlphabet ==
    {Mov} \cup {Ifu(d, n) : d \in 0..(MaxProgLen - 1), n \in 0..1}
          \cup {Loop(d) : d \in 0..(MaxProgLen - 2)}

Init ==
    InitWith(Programs(FlowAlphabet, MaxProgLen - 1), {<<IdentitySwizzle>>},
             {Uniforms(b, PackInt(1, 0, 1, 0)) : b \in BOOLEAN}, {PlainUnit},
             {Sysv(0)}, {0})

Spec == Init /\ [][Next]_vars

\* ------------------------------------------------- unsupported control flow

FlowOpcodes == {OP_IFU, OP_IFC, OP_LOOP}

\* The instruction at offset k is an IF or a LOOP whose target lies before it.
BackwardBranch(k) ==
    /\ GetVertexShaderInstruction(k).opcode \in FlowOpcodes
    /\ GetVertexShaderInstruction(k).dest_offset < k

\* The code of the LOOP at offset k lies inside the code of another LOOP:
\* after that one's prologue and before its tail.
NestedLoop(k) ==
    \E a, b, c \in 1..Len(jit.code) :
        /\ a < b /\ b < c
        /\ jit.code[a].op = "mov_load32" /\ jit.code[c].op = "sub32"
        /\ jit.code[a].at = jit.code[c].at /\ jit.code[a].at # k
        /\ jit.code[b].op = "mov_load32" /\ jit.code[b].at = k

Offsets == 0..(Len(program) - 1)

\* C1: a program with a backward IF / LOOP or a nested LOOP is rejected while
\* it is compiled: the pass never completes for it, and no violation is
\* reported only by the running code.
C1_RejectedAtCompileTime ==
    /\ phase = "ready" => ~(\E k \in Offsets : BackwardBranch(k) \/ NestedLoop(k))
    /\ cpu.log = <<>>

\* ------------------------------------------------------------ subroutines

\* Programs of MOVs, ENDs, CALLs and taken JMPUs, closed by an END.
CallAlphabet ==
    {Mov, End} \cup {Call(d, n) : d \in 1..(MaxProgLen - 2), n \in 0..1}
               \cup {Jmpu(d, 0) : d \in 1..(MaxProgLen - 2)}

InitCalls ==
    InitWith(Programs(CallAlphabet, MaxProgLen), {<<IdentitySwizzle>>},
             {Uniforms(TRUE, PackInt(1, 0, 1, 0))}, {PlainUnit}, {Sysv(0)}, {0})

SpecCalls == InitCalls /\ [][Next]_vars

\* The innermost CALL entered and not yet left.
ActiveCall == calls[Len(calls)]

\* The host instruction at position p is the branch / the ret of a return
\* check (Compile_Return), not the ret of an END.
CheckBranch(p) ==
    /\ p + 1 \in 1..Len(jit.code)
    /\ jit.code[p].op = "jnz" /\ jit.code[p + 1].op = "ret"
CheckRet(p) ==
    /\ p - 1 \in 1..Len(jit.code)
    /\ jit.code[p].op = "ret" /\ jit.code[p - 1].op = "jnz"

\* One step of the compiled code, seen from the CALL that is active: the
\* return check of its return offset takes the return, the return lands
\* right behind that CALL, and there the stack pointer is put back.
ResumeStep ==
    (Running /\ calls # <<>>) =>
        /\ (CheckBranch(cpu.ip) /\ CurOp.at = ActiveCall.ret) => cpu'.ip = cpu.ip + 1
        /\ CheckRet(cpu.ip) =>
              /\ cpu'.halt = ""
              /\ jit.code[cpu'.ip].op = "add_rsp"
              /\ jit.code[cpu'.ip].at = ActiveCall.site
              /\ jit.code[cpu'.ip - 1].op = "call"
        /\ CurOp.op = "add_rsp" =>
              /\ CurOp.at = ActiveCall.site
              /\ Len(cpu'.stack) = ActiveCall.sp

\* C2: every execution of a subroutine that reaches the return offset its
\* CALL pushed resumes at the instruction right after that CALL, also
\* when another CALL pushes the same return offset, and the stack pointer
\* is then what it was before the CALL.
C2_SharedReturnPoint == [][ResumeStep]_vars

\* Two CALLs at different offsets with the same target and return offset.
SharedCalls(k1, k2) ==
    /\ k1 < k2
    /\ GetVertexShaderInstruction(k1).opcode = OP_CALL
    /\ GetVertexShaderInstruction(k2) = GetVertexShaderInstruction(k1)

\* The subroutine has run for both call sites and the second has resumed
\* with the first one's stack pointer.
C2_BothSitesResumed ==
    /\ Running /\ calls = <<>> /\ Len(cpu.stack) = 3
    /\ \E k1, k2 \in Offsets :
          /\ SharedCalls(k1, k2)
          /\ cpu.ip - 1 \in 1..Len(jit.code)
          /\ jit.code[cpu.ip - 1].op = "add_rsp" /\ jit.code[cpu.ip - 1].at = k2
          /\ Len(SelectSeq(trace,
                 LAMBDA w : w.at = GetVertexShaderInstruction(k1).dest_offset)) = 2

\* The Return-Offset Set of the program.
ReturnOffsetSet == {ScanCalls(0)[i] : i \in 1..Len(ScanCalls(0))}

\* C3: with a call active, the code of an instruction at a return offset r
\* is entered only after the return check of r found the active call's
\* return offset different from r, whatever path led there; and a return
\* check runs at return offsets only.
C3_CheckOnEveryArrival ==
    /\ \A r \in Offsets \cap ReturnOffsetSet :
          (Running /\ calls # <<>> /\ cpu.ip = jit.instruction_labels[r])
              => ActiveCall.ret # r
    /\ (Running /\ CurOp.op = "mov_rsp8") => CurOp.at \in ReturnOffsetSet

\* ------------------------------------------------------------------ loops

\* One LOOP at offset k whose body is the MOVs of k+1..d, among MOVs.
LoopProgram(len, k, d) ==
    [i \in 1..len |->
        IF i = len THEN End
        ELSE IF i = k + 1 THEN Loop(d)
        ELSE Mov]

LoopPrograms ==
    UNION {{LoopProgram(MaxProgLen, k, d) : d \in (k + 1)..(MaxProgLen - 2)} :
              k \in 0..(MaxProgLen - 3)}

\* The bytes drawn for the integer uniform: (count, start, increment, w).
LoopCounts == {0, 1, 3}
LoopStarts == {0, 5, 255}
LoopIncs == {0, 1, 255}
LoopHighBytes == {0, 255}

InitLoop ==
    InitWith(LoopPrograms, {<<IdentitySwizzle>>},
             {Uniforms(TRUE, PackInt(x, y, z, w)) :
                 x \in LoopCounts, y \in LoopStarts, z \in LoopIncs, w \in LoopHighBytes},
             {PlainUnit}, {Sysv(0)}, {0})

SpecLoop == InitLoop /\ [][Next]_vars

\* The bytes of the integer uniform of the LOOP at offset k.
LoopUniform(k) == setup.i[GetVertexShaderInstruction(k).int_uniform_id]
UniformX(k) == LoopUniform(k).v % 256
UniformY(k) == (LoopUniform(k).v \div 256) % 256
UniformZ(k) == (LoopUniform(k).v \div 65536) % 256

\* The body of the LOOP at offset k: the offsets after it up to its target.
LoopBody(k) == (k + 1)..GetVertexShaderInstruction(k).dest_offset

\* A forward LOOP outside every other LOOP whose body holds no flow
\* control and no EX2 / LG2.
PlainLoop(k) ==
    /\ GetVertexShaderInstruction(k).opcode = OP_LOOP
    /\ LoopBody(k) # {} /\ LoopBody(k) \subseteq Offsets
    /\ \A m \in LoopBody(k) : GetVertexShaderInstruction(m).opcode \in {OP_MOV, OP_MUL, OP_NOP}
    /\ \A m \in Offsets \ {k} : GetVertexShaderInstruction(m).opcode # OP_LOOP

\* The writes of the instruction at offset m so far, oldest first.
WritesOf(m) == SelectSeq(trace, LAMBDA w : w.at = m)

\* C4: the body of a plain LOOP runs count + 1 times; the loop accumulator
\* is 16 * start in the first pass and 16 * increment more in each next one.
C4_LoopIterations ==
    \A k \in Offsets : PlainLoop(k) =>
        \A m \in LoopBody(k) : GetVertexShaderInstruction(m).opcode = OP_MOV =>
            /\ Len(WritesOf(m)) <= UniformX(k) + 1
            /\ phase = "done" => Len(WritesOf(m)) = UniformX(k) + 1
            /\ \A i \in 1..Len(WritesOf(m)) :
                  WritesOf(m)[i].acc = 16 * UniformY(k) + (i - 1) * 16 * UniformZ(k)

\* A LOOP with count 3 and a non-zero start and increment has run its
\* four passes and the program has ended.
C4_FourPasses ==
    /\ phase = "done"
    /\ \E k \in Offsets :
          /\ PlainLoop(k) /\ UniformX(k) = 3 /\ UniformY(k) = 5 /\ UniformZ(k) = 255
          /\ \E m \in LoopBody(k) : Len(WritesOf(m)) = 4

\* ------------------------------------------------------ out-of-line calls

Ex2 == Instr(OP_EX2)
Lg2 == Instr(OP_LG2)

FarAlphabet == {Mov, Ex2, Lg2} \cup {Loop(d) : d \in 1..(MaxProgLen - 2)}

\* What a far call may leave in the registers it is free to change, and
\* what exp2f / log2f may return.
FarValues == {1, 3}
FarResults == {FOne, FNaN}

InitFar ==
    InitWith(Programs(FarAlphabet, MaxProgLen - 1), {<<IdentitySwizzle>>},
             {Uniforms(TRUE, PackInt(1, 0, 1, 0))}, {PlainUnit},
             {Host(abi, TRUE, 0, a, r) :
                 abi \in {"sysv", "win64"}, a \in FarValues, r \in FarResults},
             {0})

SpecFar == InitFar /\ [][Next]_vars

\* The registers holding persistent compiler state, by role.
PersistentRoles ==
    {SETUP, STATE_PTR, ADDROFFS_REG_0, ADDROFFS_REG_1, LOOPCOUNT_REG, LOOPCOUNT, LOOPINC,
     COND0, COND1, ONE, NEGBIT}

RegValue(c, r) == IF r \in GPRs THEN c.gpr[r] ELSE c.xmm[r]

\* The host is about to make the out-of-line call of an EX2 or LG2.
AtFarCall == Running /\ CurOp.op = "call_far" /\ CurOp.i \in {"exp2f", "log2f"}

\* C5: the out-of-line call of EX2 / LG2 leaves every register holding
\* persistent compiler state as it was: the two pointers, the address
\* accumulators, the loop accumulator, counter and increment, the condition
\* flags and the SIMD constants.
C5_RolesPreserved ==
    [][AtFarCall => \A r \in PersistentRoles : RegValue(cpu', r) = RegValue(cpu, r)]_vars

\* --------------------------------------------------------- multiplication

Mul == Instr(OP_MUL)

\* Operand values of every class: zeros, finite non-zero, infinities, NaNs.
MulValues ==
    {FZero, F32(1, 0, 0), FOne, FTwo, FNegOne, F32(0, 125, 0), FInf, F32(1, 255, 0),
     FNaN, F32(1, 255, 1)}

\* Lane 1 of both operands is drawn; the other lanes hold one case each.
MulUnits ==
    {[r \in UnitRegs |->
         IF r = Reg("Input", 0) THEN Vec(x, FTwo, FNaN, FZero)
         ELSE IF r = Reg("Input", 1) THEN Vec(y, FNaN, FNaN, FInf)
         ELSE Splat(FOne)] : x \in MulValues, y \in MulValues}

InitMul ==
    InitWith({<<Mul, End>>}, {<<IdentitySwizzle>>},
             {Uniforms(TRUE, PackInt(1, 0, 1, 0))}, MulUnits, {Sysv(0), Win64(0)}, {0})

SpecMul == InitMul /\ [][Next]_vars

\* The operands and the result of the MUL at offset 0, per lane.
MulA(i) == unit[GetVertexShaderInstruction(0).src1][i]
MulB(i) == unit[GetVertexShaderInstruction(0).src2][i]
MulResult(i) == unit[GetVertexShaderInstruction(0).dest][i]
Lanes == 1..4

DestUnit ==
    [r \in UnitRegs |->
        IF r = Reg("Input", 0) THEN Vec(W(1), W(2), W(3), W(4))
        ELSE IF r = Reg("Output", 0) THEN Vec(W(5), W(6), W(7), W(8))
        ELSE Splat(FOne)]

InitDest ==
    InitWith({<<Mov, End>>},
             {<<Swizzle(NO_SRC_REG_SWIZZLE, NO_SRC_REG_SWIZZLE, FALSE, FALSE, mask)>> :
                 mask \in 0..NO_DEST_REG_MASK},
             {Uniforms(TRUE, PackInt(1, 0, 1, 0))}, {DestUnit},
             {Host(abi, blend, 0, 1, FOne) : abi \in {"sysv", "win64"}, blend \in BOOLEAN},
             {0})

SpecDest == InitDest /\ [][Next]_vars

\* The MOV at offset 0, its descriptor and its registers.
MovInstr == GetVertexShaderInstruction(0)
MovSwizzle == swizzle_data[MovInstr.operand_desc_id + 1]

\* C7: after a masked write the destination holds the result in its enabled
\* lanes and its previous value in the disabled ones, with the blend
\* instruction and without it, and no other register of the per-invocation
\* state has changed.
C7_MaskedWrite ==
    phase = "done" =>
        /\ \A i \in Lanes :
              unit[MovInstr.dest][i] =
                  IF DestComponentEnabled(MovSwizzle, i - 1)
                  THEN DestUnit[MovInstr.src1][i]
                  ELSE DestUnit[MovInstr.dest][i]
        /\ \A r \in UnitRegs \ {MovInstr.dest} : unit[r] = DestUnit[r]

\* A write with x and z enabled, y and w disabled, has been made on the
\* unpack / shuffle path.
C7_MixedMaskWithoutBlend ==
    /\ phase = "done" /\ ~host.sse4_1
    /\ MovSwizzle.dest_mask = 10
    /\ unit[MovInstr.dest] = Vec(W(1), W(6), W(3), W(8))

\* ------------------------------------------------------------ comparisons

Cmp(op_x, op_y) == [Instr(OP_CMP) EXCEPT !.compare_x = op_x, !.compare_y = op_y]

\* CompareOpType::Op: ==, !=, <, <=, >, >=.
CompareOps == 0..5

\* Ordered operand values: negative, the two zeros, positive.
CmpValues == {FNegOne, F32(1, 0, 0), FZero, FTwo}

CmpUnits ==
    {[r \in UnitRegs |->
         IF r = Reg("Input", 0) THEN Vec(ax, ay, FOne, FOne)
         ELSE IF r = Reg("Input", 1) THEN Vec(bx, by, FOne, FOne)
         ELSE Splat(FOne)] : ax \in CmpValues, ay \in CmpValues,
                             bx \in CmpValues, by \in CmpValues}

InitCmp ==
    InitWith({<<Cmp(op_x, op_y), End>> : op_x \in CompareOps, op_y \in CompareOps},
             {<<IdentitySwizzle>>}, {Uniforms(TRUE, PackInt(1, 0, 1, 0))}, CmpUnits,
             {Sysv(0)}, {0})

SpecCmp == InitCmp /\ [][Next]_vars

\* What the operator op says of two ordered values.
CompareHolds(op, a, b) ==
    CASE op = 0 -> FEq(a, b)
      [] op = 1 -> ~FEq(a, b)
      [] op = 2 -> FLess(a, b)
      [] op = 3 -> FLess(a, b) \/ FEq(a, b)
      [] op = 4 -> FLess(b, a)
      [] op = 5 -> FLess(b, a) \/ FEq(a, b)

Flag(b) == Imm(IF b THEN 1 ELSE 0)

\* The CMP at offset 0 has run and the instruction after it is next.
AfterCmp ==
    /\ Running /\ GetVertexShaderInstruction(0).opcode = OP_CMP
    /\ cpu.ip = jit.instruction_labels[1]

CmpInstr == GetVertexShaderInstruction(0)

\* C8: after CMP the X flag is 1 exactly if op_x holds of the x lanes and
\* the Y flag is 1 exactly if op_y holds of the y lanes, for every pair of
\* operators, equal or not.
C8_CmpFlags ==
    AfterCmp =>
        /\ cpu.gpr[COND0] =
              Flag(CompareHolds(CmpInstr.compare_x, unit[CmpInstr.src1][1], unit[CmpInstr.src2][1]))
        /\ cpu.gpr[COND1] =
              Flag(CompareHolds(CmpInstr.compare_y, unit[CmpInstr.src1][2], unit[CmpInstr.src2][2]))

\* One shared >= comparison has set the X flag and cleared the Y flag.
C8_SharedCompareDifferentFlags ==
    /\ AfterCmp
    /\ CmpInstr.compare_x = 5 /\ CmpInstr.compare_y = 5
    /\ cpu.gpr[COND0] = Flag(TRUE) /\ cpu.gpr[COND1] = Flag(FALSE)

\* ------------------------------------------------------- the opcode table

Opcodes == 0..63

InitTable ==
    InitWith({<<Instr(a), Instr(b), End>> : a \in Opcodes, b \in Opcodes},
             {<<IdentitySwizzle>>}, {Uniforms(TRUE, PackInt(1, 0, 1, 0))}, {PlainUnit},
             {Sysv(0)}, {0})

SpecTable == InitTable /\ [][Next]_vars

\* The generators named in instr_table.
Generators ==
    {"Compile_ADD", "Compile_DP3", "Compile_DP4", "Compile_DPH", "Compile_EX2",
     "Compile_LG2", "Compile_MUL", "Compile_SGE", "Compile_SLT", "Compile_FLR",
     "Compile_MAX", "Compile_MIN", "Compile_RCP", "Compile_RSQ", "Compile_MOVA",
     "Compile_MOV", "Compile_NOP", "Compile_END", "Compile_CALL", "Compile_CALLC",
     "Compile_CALLU", "Compile_IF", "Compile_LOOP", "Compile_JMP", "Compile_CMP",
     "Compile_MAD"}

Unsupported(k) == instr_table[GetVertexShaderInstruction(k).opcode + 1] = "nullptr"

\* Compile_NextInstr is about to compile an instruction without generator.
AtUnsupported ==
    /\ phase = "compile" /\ jit.frames # <<>>
    /\ jit.program_counter < TopFrame(jit).end
    /\ jit.program_counter < Len(program)
    /\ Unsupported(jit.program_counter)

\* What compiling it does: the label of the offset is bound, nothing is
\* emitted behind it, one diagnostic is logged, the offset advances by one
\* and the pass goes on in the same block.
UnsupportedStep ==
    AtUnsupported =>
        /\ jit'.instruction_labels[jit.program_counter] # 0
        /\ jit'.instruction_labels[jit.program_counter] = Here(jit')
        /\ jit'.log = Append(jit.log, <<"Unhandled instruction", jit.program_counter>>)
        /\ jit'.program_counter = jit.program_counter + 1
        /\ jit'.frames = jit.frames
        /\ phase' = "compile"

\* When the pass is over, every instruction has been compiled.
AllCompiled ==
    phase = "ready" =>
        /\ jit.program_counter = Len(program)
        /\ \A k \in Offsets : jit.starts[k] # 0 /\ jit.instruction_labels[k] # 0

\* C9: each of the 64 opcodes has a generator or the unsupported marker in
\* the table; an instruction with the marker gets no code and one non-fatal
\* diagnostic, its label is bound, the compilation offset advances by one
\* and every following instruction is compiled.
C9_UnsupportedOpcode ==
    /\ [](/\ Len(instr_table) = 64
          /\ \A opc \in Opcodes : instr_table[opc + 1] \in Generators \cup {"nullptr"})
    /\ [][UnsupportedStep]_vars
    /\ []AllCompiled

\* A pass has ended that met an instruction without generator at offset 0
\* and compiled the MOV after it.
C9_SkippedThenCompiled ==
    /\ phase = "ready"
    /\ Unsupported(0) /\ GetVertexShaderInstruction(1).opcode = OP_MOV
    /\ jit.log = << <<"Unhandled instruction", 0>> >>
    /\ jit.instruction_labels[0] = jit.starts[1]
    /\ \E p \in 1..Len(jit.code) : jit.code[p].at = 1

\* ----------------------------------------------------------- conditionals

\* Where the code of offset m begins; past the program, where the code ends.
StartOf(m) == IF m \in Offsets THEN jit.starts[m] ELSE Len(jit.code) + 1

\* The offset behind everything the instruction at m makes the pass compile.
FlowEnd(m) ==
    LET instr == GetVertexShaderInstruction(m) IN
    IF instr.opcode \in {OP_IFU, OP_IFC} THEN instr.dest_offset + instr.num_instructions
    ELSE IF instr.opcode = OP_LOOP THEN instr.dest_offset + 1
    ELSE m + 1

\* Every block that begins in lo..hi-1 ends there.
Contained(lo, hi) == \A m \in lo..(hi - 1) : m \in Offsets /\ FlowEnd(m) <= hi

\* The code at position q closes a block: the jump over an ELSE arm or the
\* tail of a loop.
Closing(q) ==
    LET o == jit.code[q] IN
    /\ o.at \in Offsets
    /\ \/ GetVertexShaderInstruction(o.at).opcode \in {OP_IFU, OP_IFC} /\ o.op = "jmp"
       \/ /\ GetVertexShaderInstruction(o.at).opcode = OP_LOOP
          /\ o.op \in {"sub32", "jnz"} \/ (o.op = "add32" /\ o.s = LOOPINC)

\* Where control inside the block of offset k arrives at offset m: the code
\* of m, or the code that closes the blocks around k that end at m.
Landing(k, m) ==
    CHOOSE p \in 1..StartOf(m) :
        /\ \A q \in p..(StartOf(m) - 1) : Closing(q) /\ jit.code[q].at < k
        /\ p > 1 => ~(Closing(p - 1) /\ jit.code[p - 1].at < k)

IsIf(k) == GetVertexShaderInstruction(k).opcode \in {OP_IFU, OP_IFC}
IfTarget(k) == GetVertexShaderInstruction(k).dest_offset
IfElse(k) == GetVertexShaderInstruction(k).num_instructions

ForwardIf(k) == IsIf(k) /\ IfTarget(k) > k

\* A forward IF inside the program whose arms hold their nested blocks.
ProperIf(k) ==
    /\ ForwardIf(k)
    /\ IfTarget(k) + IfElse(k) <= Len(program)
    /\ Contained(k + 1, IfTarget(k))
    /\ Contained(IfTarget(k), IfTarget(k) + IfElse(k))

\* One step of the code of the IF at offset k: its conditional branch
\* enters the true arm or goes on at D, and the jump that closes the true
\* arm stands right before the code of D and goes on at D + N.
IfStep(k) ==
    (Running /\ CurOp.at = k) =>
        /\ CurOp.op = "jz" =>
              /\ cpu.zf => cpu'.ip = IF IfElse(k) > 0 THEN StartOf(IfTarget(k))
                                     ELSE Landing(k, IfTarget(k))
              /\ ~cpu.zf =>
                    cpu'.ip = IF IfTarget(k) > k + 1 THEN StartOf(k + 1)
                              ELSE IF IfElse(k) > 0 THEN cpu.ip + 1
                              ELSE Landing(k, IfTarget(k))
              /\ IfElse(k) > 0 =>
                    /\ jit.code[StartOf(IfTarget(k)) - 1].op = "jmp"
                    /\ jit.code[StartOf(IfTarget(k)) - 1].at = k
        /\ CurOp.op = "jmp" =>
              /\ cpu.ip + 1 = StartOf(IfTarget(k))
              /\ cpu'.ip = Landing(k, IfTarget(k) + IfElse(k))

\* C10: in any program, blocks nested in the true arm that extend past D
\* included, every forward IF at k runs [k+1, D) when its condition holds
\* and continues at D when it does not, and both arms continue at D + N.
C10_AnyProgram == [][\A k \in Offsets : ForwardIf(k) => IfStep(k)]_vars

\* What Compile_IF does achieve: the same for every forward IF whose arms
\* hold the blocks nested in them.
ProperIfElse == [][\A k \in Offsets : ProperIf(k) => IfStep(k)]_vars

\* The true arm of such an IF with an ELSE, holding a nested block, has run
\* and the jump to the join point is next.
ProperTrueArmDone ==
    /\ Running /\ CurOp.op = "jmp"
    /\ \E k \in Offsets :
          /\ CurOp.at = k /\ ProperIf(k) /\ IfElse(k) > 0
          /\ \E m \in (k + 1)..(IfTarget(k) - 1) : IsIf(m) \/ PlainLoop(m)
          /\ trace # <<>>

\* ------------------------------------------------------ the nested-loop flag

\* A LOOP is being compiled: Compile_LOOP waits for its Compile_Block.
LoopOpen(j) == \E i \in 1..Len(j.frames) : j.frames[i].fn = "Compile_LOOP"

\* C11: throughout a pass the nested-loop flag is set exactly while the
\* compilation offset lies inside the body of a LOOP being compiled, and it
\* is clear when Compile returns.
C11_FlagWhileInLoop ==
    /\ phase = "compile" => (jit.looping <=> LoopOpen(jit))
    /\ phase = "ready" => ~jit.looping

\* ------------------------------------------------- the compilation offset

\* Programs that mix blocks and calls.
MixedAlphabet ==
    {Mov} \cup {Ifu(d, n) : d \in 1..(MaxProgLen - 1), n \in 0..1}
          \cup {Loop(d) : d \in 1..(MaxProgLen - 2)}
          \cup {Call(d, n) : d \in 1..(MaxProgLen - 2), n \in 0..1}

InitMixed ==
    InitWith(Programs(MixedAlphabet, MaxProgLen - 1), {<<IdentitySwizzle>>},
             {Uniforms(TRUE, PackInt(1, 0, 1, 0))}, {PlainUnit}, {Sysv(0)}, {0})

SpecMixed == InitMixed /\ [][Next]_vars

ReturnCheckOps == {"mov_rsp8", "cmp32", "jnz", "ret"}

\* A step of the pass that compiles the instruction at offset k.
Compiles(k) ==
    /\ phase = "compile" /\ phase' = "compile"
    /\ jit.program_counter = k /\ jit'.program_counter # k

\* The step that compiles k advances the offset by one, compiles k for the
\* first time, binds the label of k, unbound until then, behind the return
\* check and right in front of the code of k, and binds no other label.
CompileStep(k) ==
    Compiles(k) =>
        /\ jit'.program_counter = k + 1
        /\ jit.starts[k] = 0 /\ jit.instruction_labels[k] = 0
        /\ \A m \in Offsets : m > k => jit.starts[m] = 0
        /\ jit'.instruction_labels[k] \in (Len(jit.code) + 1)..(Len(jit'.code) + 1)
        /\ \A q \in (Len(jit.code) + 1)..(jit'.instruction_labels[k] - 1) :
              jit'.code[q].op \in ReturnCheckOps /\ jit'.code[q].at = k
        /\ jit'.instruction_labels[k] <= Len(jit'.code) =>
              /\ jit'.code[jit'.instruction_labels[k]].at = k
              /\ jit'.code[jit'.instruction_labels[k]].op # "mov_rsp8"
        /\ \A m \in Offsets \ {k} : jit'.instruction_labels[m] = jit.instruction_labels[m]

\* Any other step of the pass leaves the offset and the labels alone.
OtherStep ==
    (phase = "compile" /\ jit'.program_counter = jit.program_counter) =>
        jit'.instruction_labels = jit.instruction_labels

\* Once the pass is over every label is bound, in the order of the offsets.
AllBound ==
    phase = "ready" =>
        /\ \A k \in Offsets : jit.instruction_labels[k] > 0
        /\ \A k, m \in Offsets : k < m => jit.instruction_labels[k] <= jit.instruction_labels[m]

\* C12: during one pass the compilation offset only increases, by one per
\* compiled instruction, no offset is compiled twice, and the label of every
\* offset is bound exactly once, right before the code of its instruction,
\* in increasing order of the offsets.
C12_OffsetsInOrder ==
    /\ [][(\A k \in Offsets : CompileStep(k)) /\ OtherStep]_vars
    /\ []AllBound

\* A pass is over that compiled a CALL inside a block, with a return check
\* emitted in front of a label.
C12_MixedPassDone ==
    /\ phase = "ready"
    /\ \E k \in Offsets : k > 0 /\ GetVertexShaderInstruction(k).opcode = OP_CALL
                          /\ GetVertexShaderInstruction(0).opcode \in FlowOpcodes
                          /\ GetVertexShaderInstruction(0).dest_offset > k
    /\ \E k \in Offsets : jit.instruction_labels[k] = jit.starts[k] + 4

\* ---------------------------------------------- return checks at top level

\* What the caller can have left in the registers and in the bytes above
\* the stack pointer.
TopValues == 0..2

TopAlphabet == {Mov} \cup {Call(d, n) : d \in 0..(MaxProgLen - 2), n \in 0..1}

InitTop ==
    InitWith(Programs(TopAlphabet, MaxProgLen - 1), {<<IdentitySwizzle>>},
             {Uniforms(TRUE, PackInt(1, 0, 1, 0))}, {PlainUnit},
             {Sysv(v) : v \in TopValues} \cup {Win64(v) : v \in TopValues}, 0..1)

SpecTop == InitTop /\ [][Next]_vars

\* C13: a return check reached while no call is active does not fire: the
\* native return of a return check is never executed there.
C13_NoReturnAtTopLevel ==
    ~(Running /\ calls = <<>> /\ CheckRet(cpu.ip) /\ CurOp.at \in ReturnOffsetSet)

\* ------------------------------------------------- flag-based conditions

ConditionOps == {"Or", "And", "JustX", "JustY"}

Conditional(opc, op, refx, refy) ==
    [Instr(opc) EXCEPT !.op = op, !.refx = refx, !.refy = refy,
                       !.dest_offset = MaxProgLen - 2, !.num_instructions = 0]

\* An optional CMP, then an IFC, CALLC or JMPC to the closing END.
CondPrograms ==
    {<<first, Conditional(opc, op, refx, refy), Mov, End>> :
        first \in {Mov, Cmp(0, 0), Cmp(1, 1), Cmp(0, 1)},
        opc \in {OP_IFC, OP_CALLC, OP_JMPC},
        op \in ConditionOps, refx \in 0..1, refy \in 0..1}

InitCond ==
    InitWith(CondPrograms, {<<IdentitySwizzle>>},
             {Uniforms(TRUE, PackInt(1, 0, 1, 0))}, {PlainUnit},
             {Sysv(v) : v \in 0..2}, {0})

SpecCond == InitCond /\ [][Next]_vars

\* The host is at the branch that follows the condition of a flag-based
\* instruction.
AtConditionBranch ==
    /\ Running /\ CurOp.op \in {"jz", "jnz"} /\ ~CheckBranch(cpu.ip)
    /\ CurOp.at \in Offsets
    /\ GetVertexShaderInstruction(CurOp.at).opcode \in {OP_IFC, OP_CALLC, OP_JMPC}

FlagHolds(r) == cpu.gpr[r] \in {Imm(0), Imm(1)}

\* The condition of an instruction on the flags as they are.
ConditionOn(instr) ==
    LET x == cpu.gpr[COND0] = Imm(instr.refx)
        y == cpu.gpr[COND1] = Imm(instr.refy)
    IN  CASE instr.op = "Or" -> x \/ y
          [] instr.op = "And" -> x /\ y
          [] instr.op = "JustX" -> x
          [] instr.op = "JustY" -> y

\* C14: where compiled code evaluates a flag-based condition each of the two
\* flags holds 0 or 1, also when no CMP ran since entry, and the evaluated
\* condition is true exactly when the instruction's operator says so of
\* flagX = refx and flagY = refy.
C14_FlagsAreBits ==
    AtConditionBranch =>
        /\ FlagHolds(COND0) /\ FlagHolds(COND1)
        /\ ~cpu.zf <=> ConditionOn(GetVertexShaderInstruction(CurOp.at))

\* ------------------------------------------------------------ index ranges

\* Programs whose every target is an offset of the program; the else
\* extent of an IF may reach past its end.
RangeAlphabet ==
    {Mov} \cup {Ifu(d, n) : d \in 1..(MaxProgLen - 2), n \in 0..2}
          \cup {Loop(d) : d \in 1..(MaxProgLen - 2)}
          \cup {Call(d, n) : d \in 1..(MaxProgLen - 2), n \in 0..1}
          \cup {Jmpu(d, 0) : d \in 1..(MaxProgLen - 2)}

InitRange ==
    InitWith(Programs(RangeAlphabet, MaxProgLen - 1), {<<IdentitySwizzle>>},
             {Uniforms(TRUE, PackInt(1, 0, 1, 0))}, {PlainUnit}, {Sysv(0)}, {0})

SpecRange == InitRange /\ [][Next]_vars

\* The offsets whose labels the emitted code refers to.
ReferencedLabels ==
    {jit.code[q].d[2] : q \in {p \in 1..Len(jit.code) :
                                  jit.code[p].op \in {"call", "jz", "jnz", "jmp"}
                                  /\ jit.code[p].d[1] = "instr"}}

\* C15: during compilation the compilation offset never exceeds the program
\* length, the program array is never read at or past its length, every
\* label the code refers to belongs to an offset of the program, and no
\* block compiled for an IF or a LOOP ends past the program.
C15_IndicesInRange ==
    /\ phase # "fault"
    /\ jit.program_counter <= Len(program)
    /\ ReferencedLabels \subseteq Offsets
    /\ \A i \in 1..Len(jit.frames) : jit.frames[i].end <= Len(program)

\* ------------------------------------------------------------- termination

\* Compile() is one sequential call: once started it runs on until it
\* returns.
Compiling == StartCompile \/ StepNextInstr \/ StepBlockReturn

SpecFair == Init /\ [][Next]_vars /\ WF_vars(Compiling)

\* Every target of the program is an offset of it or its end.
TargetsInProgram ==
    \A k \in Offsets : FlowEnd(k) <= Len(program)

\* A step of the pass: the offset never goes back, and a step that compiles
\* an instruction advances it by one.
PassStep ==
    (phase = "compile" /\ phase' = "compile") =>
        /\ jit'.program_counter \in {jit.program_counter, jit.program_counter + 1}
        /\ jit.program_counter < TopFrame(jit).end
              => jit'.program_counter = jit.program_counter + 1

\* The blocks being compiled for an IF or a LOOP were entered after the
\* offset had moved past that instruction.
EnteredAfterAdvance ==
    phase = "compile" =>
        \A i \in 1..Len(jit.frames) :
            jit.frames[i].fn # "Compile" => jit.program_counter > jit.frames[i].at

\* The pass is over: Compile returned, or left the program array.
PassOver == phase \notin {"constructed", "compile"}

\* C16: Compile terminates for every program, whatever its flow-control
\* fields: every step of the pass advances the offset by one, a nested block
\* compilation begins only after the offset advanced, and once Compile has
\* returned every offset of the program has been compiled.
C16_CompileTerminates ==
    /\ [][PassStep]_vars
    /\ []EnteredAfterAdvance
    /\ <>PassOver
    /\ TargetsInProgram => <>(phase = "ready")
    /\ [](phase = "ready" => \A k \in Offsets : jit.starts[k] > 0)

\* Compile returned on a program with a backward IF and with an IF whose
\* nested block overlaps its end.
C16_OddProgramCompiled ==
    /\ phase = "ready"
    /\ \E k \in Offsets : BackwardBranch(k)
    /\ \E k \in Offsets : ForwardIf(k) /\ ~ProperIf(k)
    /\ \A k \in Offsets : jit.starts[k] > 0

====
